---- MODULE Spec2Model ----
(***************************************************************************)
(* A model of the skribbl client: the login handshake and Skribbl.join,   *)
(* and the Session's event handlers that mirror the room in a Game.       *)
(* Modelled from src/skribbl/skribbl.py and src/skribbl/models.py.        *)
(*                                                                         *)
(* Python strings that the code transforms (the wire value of a language) *)
(* are sequences of one-character strings, so that str.capitalize() is    *)
(* computed and not assumed.  A Python exception leaving a handler or a   *)
(* call is recorded by its class name in err.                             *)
(***************************************************************************)
EXTENDS Integers, Sequences, FiniteSets, TLC

\* ------------------------------------------------------------------------
\* Bounds of the model
\* ------------------------------------------------------------------------

\* Player ids sent by the server are 1..MaxId.
MaxId == 2

Ids == 1..MaxId

\* ------------------------------------------------------------------------
\* models.py: Language, Avatar, Player
\* ------------------------------------------------------------------------

\* The values of the members of the Language enum.
Language ==
    { <<"E","n","g","l","i","s","h">>, <<"G","e","r","m","a","n">>,
      <<"B","u","l","g","a","r","i","a","n">>, <<"C","z","e","c","h">>,
      <<"D","a","n","i","s","h">>, <<"D","u","t","c","h">>,
      <<"F","i","n","n","i","s","h">>, <<"F","r","e","n","c","h">>,
      <<"E","s","t","o","n","i","a","n">>, <<"G","r","e","e","k">>,
      <<"H","e","b","r","e","w">>, <<"H","u","n","g","a","r","i","a","n">>,
      <<"I","t","a","l","i","a","n">>, <<"K","o","r","e","a","n">>,
      <<"L","a","t","v","i","a","n">>, <<"M","a","c","e","d","o","n","i","a","n">>,
      <<"N","o","r","w","e","g","i","a","n">>, <<"P","o","r","t","u","g","u","e","s","e">>,
      <<"P","o","l","i","s","h">>, <<"R","o","m","a","n","i","a","n">>,
      <<"S","e","r","b","i","a","n">>, <<"S","l","o","v","a","k","i","a","n">>,
      <<"S","p","a","n","i","s","h">>, <<"S","w","e","d","i","s","h">>,
      <<"T","a","g","a","l","o","g">>, <<"T","u","r","k","i","s","h">> }

English == <<"E","n","g","l","i","s","h">>
German == <<"G","e","r","m","a","n">>

\* Hat.Default
HatDefault == -1

LowerCase ==
    <<"a","b","c","d","e","f","g","h","i","j","k","l","m",
      "n","o","p","q","r","s","t","u","v","w","x","y","z">>
UpperCase ==
    <<"A","B","C","D","E","F","G","H","I","J","K","L","M",
      "N","O","P","Q","R","S","T","U","V","W","X","Y","Z">>

\* str.upper() and str.lower() on the ASCII letters, as tables.
ToUpper ==
    [c \in {LowerCase[i] : i \in DOMAIN LowerCase} |->
        UpperCase[CHOOSE i \in DOMAIN LowerCase : LowerCase[i] = c]]
ToLower ==
    [c \in {UpperCase[i] : i \in DOMAIN UpperCase} |->
        LowerCase[CHOOSE i \in DOMAIN UpperCase : UpperCase[i] = c]]

\* str.upper() and str.lower() of one character; a non-letter is kept.
upper(c) == IF c \in DOMAIN ToUpper THEN ToUpper[c] ELSE c
lower(c) == IF c \in DOMAIN ToLower THEN ToLower[c] ELSE c

\* A plausible slip: only the first character is touched.
capitalize_first_only(s) ==
    IF s = <<>> THEN s ELSE [i \in DOMAIN s |-> IF i = 1 THEN upper(s[i]) ELSE s[i]]

\* str.capitalize(): the first character upper-cased, all others lower-cased.
capitalize(s) ==
    IF s = <<>> THEN s ELSE [i \in DOMAIN s |-> IF i = 1 THEN upper(s[i]) ELSE lower(s[i])]

\* Avatar(*values): a NamedTuple of the raw values, hat defaulting to Hat.Default.
Avatar(values) ==
    [colour |-> values[1], eye |-> values[2], mouth |-> values[3],
     hat |-> IF Len(values) >= 4 THEN values[4] ELSE HatDefault]

Player(name, avatar) == [name |-> name, avatar |-> avatar]

\* ------------------------------------------------------------------------
\* skribbl.py: Entry, Game
\* ------------------------------------------------------------------------

\* Python's None, for the Optional[str] fields.
None == "None"

Entry(player, score, guessed_word) ==
    [player |-> player, score |-> score, guessed_word |-> guessed_word]

\* The Entry add_player builds from one wire dict p.
EntryOf(p) == Entry(Player(p.name, Avatar(p.avatar)), p.score, p.guessedWord)

NoPlayers == [i \in {} |-> 0]

\* dict |= dict: the right operand wins on a common key.
merge(a, b) ==
    [i \in (DOMAIN a) \cup (DOMAIN b) |-> IF i \in DOMAIN b THEN b[i] ELSE a[i]]

\* {p.id: Entry(...) for p in players}: a later dict of the same id wins.
RECURSIVE comprehension(_)
comprehension(ps) ==
    IF ps = <<>> THEN NoPlayers
    ELSE merge(comprehension(SubSeq(ps, 1, Len(ps) - 1)),
               [i \in {ps[Len(ps)].id} |-> EntryOf(ps[Len(ps)])])

\* A plausible slip: an id already present keeps its old Entry.
add_player_keep_old(players, ps) == merge(comprehension(ps), players)

\* Game.add_player: self.players |= {...}
add_player(players, ps) == merge(players, comprehension(ps))

\* Avatar(*values) takes three or four values (hat has a default); with fewer
\* or more it raises TypeError.
well_formed(p) == Len(p.avatar) \in {3, 4}

\* A plausible slip: the entry is stored under its id before its avatar is
\* converted, so that a failing conversion leaves it behind.
add_player_failed_stored(players, ps) ==
    merge(players,
          [i \in {ps[1].id} |->
              Entry(Player(ps[1].name, [raw |-> ps[1].avatar]), ps[1].score,
                    ps[1].guessedWord)])

\* Game.add_player when Avatar(*p.avatar) raises: the dict comprehension is
\* evaluated before |= is applied, so players is as it was.
add_player_failed(players, ps) == players

\* A plausible slip: popitem() in place of pop(id); the entry inserted last
\* (here: of the largest id) is removed.
popitem(players, id) ==
    [i \in (DOMAIN players) \ {CHOOSE m \in DOMAIN players :
                                  \A j \in DOMAIN players : j <= m} |-> players[i]]

\* dict.pop(id) of a key that is present.
pop(players, id) == [i \in (DOMAIN players) \ {id} |-> players[i]]

\* A plausible slip: the first two attributes are declared in the other order.
Game_owner_first(bot_id, owner_id, language) ==
    [bot_id |-> owner_id, owner_id |-> bot_id, language |-> language,
     canvas |-> <<>>, current_word |-> None, players |-> NoPlayers]

\* Game(myID, ownerID, language): the attrs class; the converter of language is
\* applied by the caller's guard (IsLanguage), canvas and players start empty.
Game(bot_id, owner_id, language) ==
    [bot_id |-> bot_id, owner_id |-> owner_id, language |-> language,
     canvas |-> <<>>, current_word |-> None, players |-> NoPlayers]

\* Language(value): lookup of an enum member by value; ValueError when there is none.
IsLanguage(value) == value \in Language

\* The result of a call: the exception it raised ("none" when it returned) and,
\* when it returned, the value.
Returned(value) == [err |-> "none", value |-> value]
Raised(exc) == [err |-> exc, value |-> [kind |-> "none"]]
NoReturn == [kind |-> "none"]
PyNone == [kind |-> "None"]
AnEntry(e) == [kind |-> "Entry", entry |-> e]
AGame == [kind |-> "Game"]

\* A plausible slip: the owner is subscripted, as me() subscripts the bot.
owner_subscript(g) ==
    IF g.owner_id \in DOMAIN g.players
    THEN Returned(AnEntry(g.players[g.owner_id])) ELSE Raised("KeyError")

\* Game.owner: self.players.get(self.owner_id)
owner(g) ==
    IF g.owner_id \in DOMAIN g.players
    THEN Returned(AnEntry(g.players[g.owner_id])) ELSE Returned(PyNone)

\* Game.me: self.players[self.bot_id]
me(g) ==
    IF g.bot_id \in DOMAIN g.players
    THEN Returned(AnEntry(g.players[g.bot_id])) ELSE Raised("KeyError")

\* ------------------------------------------------------------------------
\* Inputs
\* ------------------------------------------------------------------------

Str_german == <<"g","e","r","m","a","n">>
Str_ENGLISH == <<"E","N","G","L","I","S","H">>
Str_not_a_language == <<"n","o","t","-","a","-","l","a","n","g","u","a","g","e">>

\* Wire values of a language, as the server may send them.
WireLanguages == {Str_german, Str_ENGLISH, Str_not_a_language}

\* A raw avatar as sent on the wire: (colour, eye, mouth, hat).
RawAvatar == <<0, 9, 16, -1>>

\* The per-player part of a roster dict; two different ones, so that a
\* replacement is visible in every field but the avatar.
WirePayloads ==
    { [name |-> "ann", score |-> 0, guessedWord |-> FALSE],
      [name |-> "bob", score |-> 10, guessedWord |-> TRUE] }

\* The dicts of a roster and of lobbyPlayerConnected.
WireEntries ==
    { [id |-> i, name |-> p.name, avatar |-> RawAvatar, score |-> p.score,
       guessedWord |-> p.guessedWord] : i \in Ids, p \in WirePayloads }

\* The dict of id i in a roster: the payload alternates with the id.
RosterEntry(i) ==
    CHOOSE w \in WireEntries :
        w.id = i /\ w.name = (IF i % 2 = 1 THEN "ann" ELSE "bob")

\* Rosters: lists of wire dicts with distinct ids, in the order of their ids.
RECURSIVE RostersUpTo(_)
RostersUpTo(n) ==
    IF n = 0 THEN {<<>>}
    ELSE RostersUpTo(n - 1) \cup {Append(r, RosterEntry(n)) : r \in RostersUpTo(n - 1)}
Rosters == RostersUpTo(MaxId)

RosterIds(ps) == {ps[i].id : i \in DOMAIN ps}

\* Avatars that Avatar(*avatar) refuses: one lacks the mouth, one has a value
\* too many.
MalformedAvatars == {<<0, 9>>, <<0, 9, 16, -1, 7>>}

\* Player dicts with such an avatar.
MalformedEntries ==
    { [id |-> i, name |-> "eve", avatar |-> a, score |-> 0,
       guessedWord |-> FALSE] : i \in Ids, a \in MalformedAvatars }

\* Rosters of all ids whose last dict is malformed.
MalformedRosters ==
    { [i \in Ids |-> IF i = MaxId THEN e ELSE RosterEntry(i)] :
        e \in {m \in MalformedEntries : m.id = MaxId} }

Words == {"cat"}
Messages == {"hi"}

\* ------------------------------------------------------------------------
\* State
\* ------------------------------------------------------------------------

VARIABLES
    \* Skribbl.join and login
    pc,        \* the position of the join coroutine
    args,      \* the arguments of join: profile, key, code, language
    profile,   \* login's UserProfile payload, once built
    login,     \* login's local Login(code, host)
    lconn,     \* the login connection: "none", "open", "closed"
    lhandler,  \* whether the result handler is registered on it
    lsent,     \* the payload emitted as "login"
    result,    \* whether the server has sent its result event
    pending,   \* the exception raised in the body of the async with
    raised,    \* the exception join raised
    host,      \* the host login returned
    rconn,     \* the room connection: "none", "open", "closed"
    rsent,     \* the payload emitted as "userData"
    session,   \* whether a Skribbl instance was constructed and returned
    \* the Session
    game,      \* the game slot of the Skribbl instance
    event,     \* the event last dispatched, or the accessor last called
    err,       \* the exception that dispatch or call raised, "none" if none
    ret,       \* the value that call returned
    lobby_seen, \* whether a lobbyConnected event has been dispatched
    had_game,  \* whether the slot held a Game when the last event was dispatched
    \* the caller of the Session (main) and a Player object of models.py
    ctx,       \* the position of main around `async with skribbl`
    player,    \* a Player object: name and avatar
    raw_set,   \* the tuple last assigned to player.raw_avatar
    raw_got    \* the outcome of the last read of player.raw_avatar

joinVars == <<pc, args, profile, login, lconn, lhandler, lsent, result, pending,
              raised, host, rconn, rsent, session>>
roomVars == <<game, event, err, ret, lobby_seen, had_game>>
auxVars == <<ctx, player, raw_set, raw_got>>
vars == <<joinVars, roomVars, auxVars>>

\* ------------------------------------------------------------------------
\* models.py: Player.raw_avatar
\* ------------------------------------------------------------------------

\* The largest codes of Colour, Eye and Mouth; the codes start at 0.
ColourMax == 17
EyeMax == 30
MouthMax == 23

\* A Python value held in an Avatar: a member of one of the enumerations, or a
\* plain int.  A member has a value attribute, an int has none.
Member(cls, value) == [cls |-> cls, value |-> value]
PyInt(value) == [cls |-> "int", value |-> value]
HasValue(a) == a.cls # "int"

\* The tuple of plain ints t, as Python objects.
Ints(t) == [i \in DOMAIN t |-> PyInt(t[i])]

\* Avatar(Colour(c), Eye(e), Mouth(m)): the hat defaults to Hat.Default.
EnumAvatar(c, e, m) ==
    Avatar(<<Member("Colour", c), Member("Eye", e), Member("Mouth", m),
             Member("Hat", HatDefault)>>)

\* Raw avatar tuples (colour, eye, mouth, hat) of valid codes: every colour,
\* the first and last eye and mouth, the one hat.
RawAvatars ==
    {<<c, e, m, HatDefault>> : c \in 0..ColourMax, e \in {0, EyeMax},
                               m \in {0, MouthMax}}

\* Player objects as an application builds them, from enumeration members.
EnumPlayers == {Player("test", EnumAvatar(t[1], t[2], t[3])) : t \in RawAvatars}

NoTuple == <<>>

\* The raw_avatar getter, lines 160-161: tuple(a.value for a in self.avatar).
raw_avatar(p) ==
    LET a == <<p.avatar.colour, p.avatar.eye, p.avatar.mouth, p.avatar.hat>> IN
    IF \A i \in DOMAIN a : HasValue(a[i])
    THEN Returned([i \in DOMAIN a |-> a[i].value])
    ELSE Raised("AttributeError")

\* The raw_avatar setter, lines 163-166: self.avatar = Avatar(*values).
set_raw_avatar(p, values) == [p EXCEPT !.avatar = Avatar(values)]

\* player.raw_avatar = t, for a tuple t of plain ints.
assign_raw_avatar(t) ==
    /\ player' = set_raw_avatar(player, Ints(t))
    /\ raw_set' = t
    /\ raw_got' = NoReturn
    /\ UNCHANGED <<joinVars, roomVars, ctx>>

\* A read of player.raw_avatar.
read_raw_avatar ==
    /\ raw_got' = raw_avatar(player)
    /\ UNCHANGED <<joinVars, roomVars, ctx, player, raw_set>>

\* main has not yet entered `async with skribbl`; the Player object is the one
\* of main.py, line 11.
AuxInit ==
    /\ ctx = "joined"
    /\ player = Player("test", EnumAvatar(0, 9, 16))
    /\ raw_set = NoTuple
    /\ raw_got = NoReturn

\* The game slot before any assignment (__slots__, no default).
NoGame == [unset |-> TRUE]
NoEvent == [name |-> "none"]
\* No payload built or emitted yet.
NoPayload == [unset |-> TRUE]

\* ------------------------------------------------------------------------
\* login and Skribbl.join
\* ------------------------------------------------------------------------

\* The object a caller passes as Player.avatar.  models.Avatar is a NamedTuple;
\* Player does not check the type, so an attrs-decorated class with the same
\* four fields can be passed as well.
AvatarObjects ==
    { [cls |-> "NamedTuple", fields |-> Avatar(<<0, 9, 16>>)],
      [cls |-> "attrs", fields |-> Avatar(<<5, 0, 2, -1>>)] }

Keys == {"", "key"}
JoinCodes == {"", "room"}
Hosts == {"wss://a", "wss://b"}

JoinArgs ==
    [profile : {Player("test", a) : a \in AvatarObjects},
     key : Keys, code : JoinCodes, language : {English, German}]

\* The dict of a result event.
Results == [code : {0, 1}, host : Hosts \cup {None}]

\* Login(code=0, host=None)
Login(code, h) == [code |-> code, host |-> h]

\* attr.astuple(inst): the field values of an attrs instance; any other object
\* is refused with NotAnAttrsClassError.
astuple(inst) ==
    IF inst.cls = "attrs"
    THEN Returned(<<inst.fields.colour, inst.fields.eye,
                    inst.fields.mouth, inst.fields.hat>>)
    ELSE Raised("NotAnAttrsClassError")

UserProfile(key, code, name, language, avatar) ==
    [code |-> key, join |-> code, name |-> name, createPrivate |-> FALSE,
     language |-> language, avatar |-> avatar]

\* A plausible slip: the host is tested in place of the code.
bad_code_by_host(l) == l.host = None

\* `not login.code`
bad_code(l) == l.code = 0

\* A plausible slip: the finally clause does not wait for the connection to end.
wait_returns_at_once(conn) == TRUE

\* AsyncClient.wait() returns once the connection is not (or no longer) open.
wait_returns(conn) == conn # "open"

LoginSteps ==
    {"login:profile", "login:connect", "login:emit", "login:register",
     "login:wait", "login:check"}

\* login, lines 89-98: the local Login() and the payload.
login_profile ==
    /\ pc = "login:profile"
    /\ login' = Login(0, None)
    /\ LET t == astuple(args.profile.avatar) IN
       IF t.err # "none"
       THEN /\ raised' = t.err
            /\ pc' = "raised"
            /\ UNCHANGED profile
       ELSE /\ profile' = UserProfile(args.key, args.code, args.profile.name,
                                      args.language, t.value)
            /\ pc' = "login:connect"
            /\ UNCHANGED raised
    /\ UNCHANGED <<args, lconn, lhandler, lsent, result, pending, host,
                   rconn, rsent, session, roomVars, auxVars>>

\* login, line 101: socket.connect(LOGIN_URL) connects or raises.
login_connect ==
    /\ pc = "login:connect"
    /\ \/ /\ lconn' = "open"
          /\ pc' = "login:emit"
          /\ UNCHANGED pending
       \/ /\ pending' = "ConnectionError"
          /\ pc' = "login:wait"
          /\ UNCHANGED lconn
    /\ UNCHANGED <<args, profile, login, lhandler, lsent, result, raised, host,
                   rconn, rsent, session, roomVars, auxVars>>

\* login, line 102: socket.emit("login", profile) sends the payload on an open
\* connection, or raises.
login_emit ==
    /\ pc = "login:emit"
    /\ \/ /\ lconn = "open"
          /\ lsent' = profile
          /\ pc' = "login:register"
          /\ UNCHANGED pending
       \/ /\ pending' = "BadNamespaceError"
          /\ pc' = "login:wait"
          /\ UNCHANGED lsent
    /\ UNCHANGED <<args, profile, login, lconn, lhandler, result, raised, host,
                   rconn, rsent, session, roomVars, auxVars>>

\* login, lines 104-107: the result handler is registered after the emit.
login_register ==
    /\ pc = "login:register"
    /\ lhandler' = TRUE
    /\ pc' = "login:wait"
    /\ UNCHANGED <<args, profile, login, lconn, lsent, result, pending, raised,
                   host, rconn, rsent, session, roomVars, auxVars>>

\* client_manager, lines 28-31: leaving the async with awaits socket.wait(), then
\* an exception of the body propagates.
client_manager_exit ==
    /\ pc = "login:wait"
    /\ wait_returns(lconn)
    /\ IF pending # "none"
       THEN raised' = pending /\ pc' = "raised"
       ELSE pc' = "login:check" /\ UNCHANGED raised
    /\ UNCHANGED <<args, profile, login, lconn, lhandler, lsent, result, pending,
                   host, rconn, rsent, session, roomVars, auxVars>>

\* login, lines 109-112.
login_check ==
    /\ pc = "login:check"
    /\ IF bad_code(login)
       THEN raised' = "LoginError" /\ pc' = "raised" /\ UNCHANGED host
       ELSE host' = login.host /\ pc' = "join:connect" /\ UNCHANGED raised
    /\ UNCHANGED <<args, profile, login, lconn, lhandler, lsent, result, pending,
                   rconn, rsent, session, roomVars, auxVars>>

\* The login server answers the login payload with a result event, and may
\* send another; the handler result(r), lines 104-107, stores each one that
\* arrives once it is registered.
server_result(r) ==
    /\ lconn = "open"
    /\ lsent # NoPayload
    /\ result' = TRUE
    /\ login' = IF lhandler THEN Login(r.code, r.host) ELSE login
    /\ UNCHANGED <<pc, args, profile, lconn, lhandler, lsent, pending, raised,
                   host, rconn, rsent, session, roomVars, auxVars>>

\* The login connection ends (the remote side closes it); the disconnect
\* handler of make_client, lines 19-22, has nothing left to close.
server_close ==
    /\ lconn = "open"
    /\ lconn' = "closed"
    /\ UNCHANGED <<pc, args, profile, login, lhandler, lsent, result, pending,
                   raised, host, rconn, rsent, session, roomVars, auxVars>>

\* join, lines 141-147: a new client, the catch-all handler, connect(host).
join_connect ==
    /\ pc = "join:connect"
    /\ \/ rconn' = "open" /\ pc' = "join:emit" /\ UNCHANGED raised
       \/ raised' = "ConnectionError" /\ pc' = "raised" /\ UNCHANGED rconn
    /\ UNCHANGED <<args, profile, login, lconn, lhandler, lsent, result, pending,
                   host, rsent, session, roomVars, auxVars>>

\* join, line 148: socket.emit("userData", profile) sends the payload on the
\* open room connection; on one that has ended it raises, and so does join.
join_emit ==
    /\ pc = "join:emit"
    /\ IF rconn = "open"
       THEN /\ rsent' = profile
            /\ pc' = "join:init"
            /\ UNCHANGED raised
       ELSE /\ raised' = "BadNamespaceError"
            /\ pc' = "raised"
            /\ UNCHANGED rsent
    /\ UNCHANGED <<args, profile, login, lconn, lhandler, lsent, result, pending,
                   host, rconn, session, roomVars, auxVars>>

\* The room connection ends: the remote side closes it (the disconnect handler
\* of make_client, lines 19-22, has nothing left to close).
room_close ==
    /\ rconn = "open"
    /\ rconn' = "closed"
    /\ UNCHANGED <<pc, args, profile, login, lconn, lhandler, lsent, result,
                   pending, raised, host, rsent, session, roomVars, auxVars>>

\* A plausible slip (the superseded constructor did this): a default Game is
\* created by the constructor.
game_slot_default == Game(0, 0, English)

\* Skribbl.__init__ assigns _socket only: the game slot stays unset.
game_slot_after_init == NoGame

\* join, line 150, and Skribbl.__init__, lines 118-128: the handlers are
\* registered; the game slot is not assigned.
Skribbl_init ==
    /\ pc = "join:init"
    /\ session' = TRUE
    /\ game' = game_slot_after_init
    /\ pc' = "joined"
    /\ UNCHANGED <<args, profile, login, lconn, lhandler, lsent, result, pending,
                   raised, host, rconn, rsent, event, err, ret, lobby_seen,
                   had_game, auxVars>>

\* ------------------------------------------------------------------------
\* The Session: event handlers and accessors
\* ------------------------------------------------------------------------

\* An event reaches its handler once the Session exists and while the room
\* connection is open.
Dispatching == session /\ rconn = "open"

\* on_chat, lines 158-161: players[id] is subscripted.
on_chat(data) ==
    /\ Dispatching
    /\ event' = [name |-> "chat", id |-> data.id, message |-> data.message]
    /\ err' = IF game = NoGame THEN "AttributeError"
              ELSE IF data.id \notin DOMAIN game.players THEN "KeyError"
              ELSE "none"
    /\ ret' = NoReturn
    /\ had_game' = (game # NoGame)
    /\ UNCHANGED <<game, lobby_seen, joinVars, auxVars>>

\* on_lobby_player_disconnect, lines 163-165: players.pop(id).
on_lobby_player_disconnect(id) ==
    /\ Dispatching
    /\ event' = [name |-> "lobbyPlayerDisconnected", id |-> id]
    /\ IF game = NoGame
       THEN err' = "AttributeError" /\ UNCHANGED game
       ELSE IF id \notin DOMAIN game.players
       THEN err' = "KeyError" /\ UNCHANGED game
       ELSE /\ err' = "none"
            /\ game' = [game EXCEPT !.players = pop(@, id)]
    /\ ret' = NoReturn
    /\ had_game' = (game # NoGame)
    /\ UNCHANGED <<lobby_seen, joinVars, auxVars>>

\* A plausible slip: the word is kept in a Game made anew.
set_current_word_new_game(g, word) ==
    [Game(0, 0, g.language) EXCEPT !.current_word = word]

\* Line 169: self.game.current_word = word
set_current_word(g, word) == [g EXCEPT !.current_word = word]

\* on_lobby_current_word, lines 167-169.
on_lobby_current_word(word) ==
    /\ Dispatching
    /\ event' = [name |-> "lobbyCurrentWord", word |-> word]
    /\ IF game = NoGame
       THEN err' = "AttributeError" /\ UNCHANGED game
       ELSE /\ err' = "none"
            /\ game' = set_current_word(game, word)
    /\ ret' = NoReturn
    /\ had_game' = (game # NoGame)
    /\ UNCHANGED <<lobby_seen, joinVars, auxVars>>

\* A plausible slip: the players dict is a default shared between instances,
\* so the new Game still holds the entries of the one before.
new_game_shared_players(myID, ownerID, language) ==
    [Game(myID, ownerID, language) EXCEPT
        !.players = IF game = NoGame THEN NoPlayers ELSE game.players]

\* Line 173: a new Game, with no player.
new_game(myID, ownerID, language) == Game(myID, ownerID, language)

\* on_lobby_connected, lines 171-175: Game(...) converts the capitalized language
\* (ValueError before the slot is assigned); the new Game is assigned to the
\* slot, and then the roster is added: when add_player raises on a malformed
\* dict, the new Game is in the slot, without a player.
on_lobby_connected(data) ==
    /\ Dispatching
    /\ event' = [name |-> "lobbyConnected", language |-> data.language,
                 players |-> data.players, ownerID |-> data.ownerID,
                 myID |-> data.myID]
    /\ lobby_seen' = TRUE
    /\ LET language == capitalize(data.language) IN
       IF ~IsLanguage(language)
       THEN err' = "ValueError" /\ UNCHANGED game
       ELSE LET g == new_game(data.myID, data.ownerID, language) IN
            IF \E i \in DOMAIN data.players : ~well_formed(data.players[i])
            THEN /\ err' = "TypeError"
                 /\ game' = [g EXCEPT !.players = add_player_failed(@, data.players)]
            ELSE /\ err' = "none"
                 /\ game' = [g EXCEPT !.players = add_player(@, data.players)]
    /\ ret' = NoReturn
    /\ had_game' = (game # NoGame)
    /\ UNCHANGED <<joinVars, auxVars>>

\* join, lines 143-145: until Skribbl.__init__ registers the handlers, the
\* catch-all handler is the only one on the room connection.  A lobbyConnected
\* event that the server sends in answer to userData and that is delivered by
\* then is printed by it, and nothing else happens.
catch_all(data) ==
    /\ rconn = "open"
    /\ rsent # NoPayload
    /\ ~session
    /\ event' = [name |-> "lobbyConnected", language |-> data.language,
                 players |-> data.players, ownerID |-> data.ownerID,
                 myID |-> data.myID]
    /\ err' = "none"
    /\ ret' = NoReturn
    /\ had_game' = (game # NoGame)
    /\ UNCHANGED <<game, lobby_seen, joinVars, auxVars>>

\* on_lobby_player_join, lines 177-179.
on_lobby_player_join(entry) ==
    /\ Dispatching
    /\ event' = [name |-> "lobbyPlayerConnected", entry |-> entry]
    /\ IF game = NoGame
       THEN err' = "AttributeError" /\ UNCHANGED game
       ELSE IF ~well_formed(entry)
       THEN /\ err' = "TypeError"
            /\ game' = [game EXCEPT !.players = add_player_failed(@, <<entry>>)]
       ELSE /\ err' = "none"
            /\ game' = [game EXCEPT !.players = add_player(@, <<entry>>)]
    /\ ret' = NoReturn
    /\ had_game' = (game # NoGame)
    /\ UNCHANGED <<lobby_seen, joinVars, auxVars>>

\* on_lobby_set_language, lines 181-183: the right-hand side is evaluated before
\* self.game is read, so an unknown language is a ValueError even without a Game.
on_lobby_set_language(language) ==
    /\ Dispatching
    /\ event' = [name |-> "lobbyLanguage", language |-> language]
    /\ IF ~IsLanguage(capitalize(language))
       THEN err' = "ValueError" /\ UNCHANGED game
       ELSE IF game = NoGame
       THEN err' = "AttributeError" /\ UNCHANGED game
       ELSE /\ err' = "none"
            /\ game' = [game EXCEPT !.language = capitalize(language)]
    /\ ret' = NoReturn
    /\ had_game' = (game # NoGame)
    /\ UNCHANGED <<lobby_seen, joinVars, auxVars>>

\* on_lobby_player_guessed_word, lines 185-188: players[id] is subscripted, and
\* the Entry found is a NamedTuple, whose attribute cannot be set.
on_lobby_player_guessed_word(id) ==
    /\ Dispatching
    /\ event' = [name |-> "lobbyPlayerGuessedWord", id |-> id]
    /\ err' = IF game = NoGame THEN "AttributeError"
              ELSE IF id \notin DOMAIN game.players THEN "KeyError"
              ELSE "AttributeError"
    /\ ret' = NoReturn
    /\ had_game' = (game # NoGame)
    /\ UNCHANGED <<game, lobby_seen, joinVars, auxVars>>

\* A read of the game attribute of the Session.
read_game ==
    /\ session
    /\ event' = [name |-> "game"]
    /\ IF game = NoGame
       THEN err' = "AttributeError" /\ ret' = NoReturn
       ELSE err' = "none" /\ ret' = AGame
    /\ had_game' = (game # NoGame)
    /\ UNCHANGED <<game, lobby_seen, joinVars, auxVars>>

\* session.game.owner()
call_owner ==
    /\ session
    /\ event' = [name |-> "owner"]
    /\ IF game = NoGame
       THEN err' = "AttributeError" /\ ret' = NoReturn
       ELSE err' = owner(game).err /\ ret' = owner(game).value
    /\ had_game' = (game # NoGame)
    /\ UNCHANGED <<game, lobby_seen, joinVars, auxVars>>

\* session.game.me()
call_me ==
    /\ session
    /\ event' = [name |-> "me"]
    /\ IF game = NoGame
       THEN err' = "AttributeError" /\ ret' = NoReturn
       ELSE err' = me(game).err /\ ret' = me(game).value
    /\ had_game' = (game # NoGame)
    /\ UNCHANGED <<game, lobby_seen, joinVars, auxVars>>

\* ------------------------------------------------------------------------
\* Specifications
\* ------------------------------------------------------------------------

ChatData == [id : Ids, message : Messages]

\* The dicts of lobbyConnected.  The server lists the bot in the roster of its
\* own room; the owner may be absent (a public room).  Every such roster, owner
\* and bot id comes with a language the code accepts, one event comes with a
\* language it does not, and some come with a malformed dict in the roster.
LobbyData ==
    { d \in [language : {l \in WireLanguages : IsLanguage(capitalize(l))},
             players : Rosters, ownerID : Ids, myID : Ids] :
        d.myID \in RosterIds(d.players) }
    \cup
    [language : {l \in WireLanguages : ~IsLanguage(capitalize(l))},
     players : {r \in Rosters : RosterIds(r) = Ids}, ownerID : {1}, myID : {1}]
    \cup
    [language : {Str_german}, players : MalformedRosters, ownerID : {1},
     myID : {1}]

RoomInit ==
    /\ game = game_slot_after_init
    /\ event = NoEvent
    /\ err = "none"
    /\ ret = NoReturn
    /\ lobby_seen = FALSE
    /\ had_game = FALSE

\* Skribbl.join(profile, key, code, language) has just been called.
JoinInit ==
    /\ pc = "login:profile"
    /\ args \in JoinArgs
    /\ profile = NoPayload
    /\ login = Login(0, None)
    /\ lconn = "none"
    /\ lhandler = FALSE
    /\ lsent = NoPayload
    /\ result = FALSE
    /\ pending = "none"
    /\ raised = "none"
    /\ host = None
    /\ rconn = "none"
    /\ rsent = NoPayload
    /\ session = FALSE
    /\ RoomInit
    /\ AuxInit

JoinNext ==
    \/ login_profile
    \/ login_connect
    \/ login_emit
    \/ login_register
    \/ client_manager_exit
    \/ login_check
    \/ \E r \in Results : server_result(r)
    \/ server_close
    \/ join_connect
    \/ join_emit
    \/ Skribbl_init
    \/ room_close
    \/ \E data \in LobbyData : catch_all(data)
    \/ \E data \in LobbyData : on_lobby_connected(data)

\* The handshake and join, to the construction of the Session, and the
\* lobbyConnected event that answers userData.
JoinSpec == JoinInit /\ [][JoinNext]_vars

\* The payload of the joined Session of Init.
JoinedProfile ==
    UserProfile("", "", "test", English, <<5, 0, 2, -1>>)

\* Skribbl.join has returned a Session: the state Skribbl_init leaves.
Joined ==
    /\ pc = "joined"
    /\ args = [profile |-> Player("test", [cls |-> "attrs",
                                            fields |-> Avatar(<<5, 0, 2, -1>>)]),
               key |-> "", code |-> "", language |-> English]
    /\ profile = JoinedProfile
    /\ login = Login(1, "wss://a")
    /\ lconn = "closed"
    /\ lhandler = TRUE
    /\ lsent = JoinedProfile
    /\ result = TRUE
    /\ pending = "none"
    /\ raised = "none"
    /\ host = "wss://a"
    /\ rconn = "open"
    /\ rsent = JoinedProfile
    /\ session = TRUE
    /\ RoomInit

Init == Joined /\ AuxInit

Next ==
    \/ \E data \in ChatData : on_chat(data)
    \/ \E id \in Ids : on_lobby_player_disconnect(id)
    \/ \E word \in Words : on_lobby_current_word(word)
    \/ \E data \in LobbyData : on_lobby_connected(data)
    \/ \E entry \in WireEntries \cup MalformedEntries : on_lobby_player_join(entry)
    \/ \E language \in WireLanguages : on_lobby_set_language(language)
    \/ \E id \in Ids : on_lobby_player_guessed_word(id)
    \/ read_game
    \/ call_owner
    \/ call_me

\* The Session after join: events in any order, accessors at any time.
Spec == Init /\ [][Next]_vars

\* main.py, line 13: `async with skribbl` enters the context; the __aenter__
\* inherited from AbstractAsyncContextManager returns the Session at once.
aenter ==
    /\ ctx = "joined"
    /\ session
    /\ ctx' = "body"
    /\ UNCHANGED <<joinVars, roomVars, player, raw_set, raw_got>>

\* main.py, lines 13-14, and __aexit__, lines 197-198: the body is left and
\* __aexit__ awaits self.wait(); nothing is said to the connection.
aexit ==
    /\ ctx = "body"
    /\ ctx' = "aexit"
    /\ UNCHANGED <<joinVars, roomVars, player, raw_set, raw_got>>

\* wait, lines 194-195, inside __aexit__: socket.wait() returns once the room
\* connection is no longer open, and the context is left.
aexit_return ==
    /\ ctx = "aexit"
    /\ wait_returns(rconn)
    /\ ctx' = "left"
    /\ UNCHANGED <<joinVars, roomVars, player, raw_set, raw_got>>

LifeNext ==
    \/ Next
    \/ aenter
    \/ aexit
    \/ aexit_return
    \/ room_close

\* The Session in its scoped use by main.  The event loop runs a coroutine
\* that can go on: the steps of main are weakly fair.  Nothing makes the
\* server close the connection.
LifeSpec ==
    /\ Init
    /\ [][LifeNext]_vars
    /\ WF_vars(aenter)
    /\ WF_vars(aexit)
    /\ WF_vars(aexit_return)

\* A Player built by an application from members of the enumerations.
AvatarInit ==
    /\ Joined
    /\ ctx = "joined"
    /\ player \in EnumPlayers
    /\ raw_set = NoTuple
    /\ raw_got = NoReturn

AvatarNext ==
    \/ \E t \in RawAvatars : assign_raw_avatar(t)
    \/ read_raw_avatar

\* Writes and reads of the raw_avatar property of a Player.
AvatarSpec == AvatarInit /\ [][AvatarNext]_vars

\* The Entry the claims expect for a wire dict p, written out.
ExpectedEntry(p) ==
    [player |-> [name |-> p.name,
                 avatar |-> [colour |-> p.avatar[1], eye |-> p.avatar[2],
                             mouth |-> p.avatar[3], hat |-> p.avatar[4]]],
     score |-> p.score, guessed_word |-> p.guessedWord]

\* Every dict of the roster ps has an avatar of four values.
WellFormedRoster(ps) == \A i \in DOMAIN ps : Len(ps[i].avatar) = 4

\* The Language member the claims expect for a wire value that names one.
ExpectedLanguage(l) == IF l = Str_german THEN German ELSE English
NamesLanguage(l) == l \in {Str_german, Str_ENGLISH}

\* ------------------------------------------------------------------------
\* Properties of login and join (checked under JoinSpec)
\* ------------------------------------------------------------------------

\* C1: a login whose payload went out and whose body ran to its end, and in
\* which the result carried a zero code or no result was stored before the
\* connection ended (login.code is then still 0), raises LoginError: join
\* returns no Session, opens no room connection and emits no userData.
C1_BadCodeIsLoginError ==
    (pc \notin LoginSteps /\ lhandler /\ pending = "none" /\ login.code = 0)
        => /\ pc = "raised"
           /\ raised = "LoginError"
           /\ ~session
           /\ rconn = "none"
           /\ rsent = NoPayload

\* A result event with code 0 (and a host) arrived and login raised LoginError.
C1_Witness ==
    /\ pc = "raised"
    /\ raised = "LoginError"
    /\ result
    /\ login.code = 0
    /\ login.host # None

\* C2: once login has returned or raised, on whichever path, the login
\* connection is not open.
C2_LoginConnectionClosed ==
    pc \notin LoginSteps => lconn # "open"

\* login returned a host after its connection had been opened and closed.
C2_Witness ==
    /\ pc = "join:connect"
    /\ lconn = "closed"
    /\ login.code = 1

\* C13, as claimed: for every Player with an Avatar of the models, key, join
\* code and language, login builds and emits the payload of the key, the join
\* code, createPrivate false, the language, the name and the avatar as its four
\* values; once login has returned, the host is the one of the result, and the
\* payload emitted as userData is that same payload.
C13_LoginSendsPayload ==
    LET a == args.profile.avatar.fields
        expected == [code |-> args.key, join |-> args.code, createPrivate |-> FALSE,
                     language |-> args.language, name |-> args.profile.name,
                     avatar |-> <<a.colour, a.eye, a.mouth, a.hat>>]
    IN /\ pc # "login:profile" => profile = expected
       /\ lsent # NoPayload => lsent = expected
       /\ pc \in {"join:connect", "join:emit", "join:init", "joined"} =>
             /\ login.code # 0
             /\ host = login.host
       /\ rsent # NoPayload => rsent = expected

\* C16, as claimed: a lobbyConnected event delivered on the open room
\* connection, at whichever step of join, has been dispatched to
\* on_lobby_connected, and with a language that names a member it has left a
\* Game.
C16_LobbyConnectedIsHandled ==
    event.name = "lobbyConnected" =>
        /\ lobby_seen
        /\ NamesLanguage(event.language) => game # NoGame

\* The steps of login itself: those it takes without an event from the server.
LoginStep ==
    \/ login_profile
    \/ login_connect
    \/ login_emit
    \/ login_register
    \/ client_manager_exit
    \/ login_check

\* C17, as claimed: once the result event has been received after the payload
\* was emitted, login needs no further event from the server: as long as it has
\* not returned or raised, a step of its own is possible, also while the
\* server keeps the login connection open.
C17_LoginProceedsAfterResult ==
    (pc \in LoginSteps /\ lsent # NoPayload /\ result) => ENABLED LoginStep

\* ------------------------------------------------------------------------
\* Properties of the Session (checked under Spec)
\* ------------------------------------------------------------------------

\* C3, as claimed: before the first lobbyConnected event is dispatched no Game
\* exists, and every handler and accessor fails on the unset game attribute
\* (AttributeError, the code's "not connected" condition) and returns nothing.
C3_AllFailNotConnected ==
    ~lobby_seen =>
        /\ game = NoGame
        /\ ret = NoReturn
        /\ event # NoEvent => err = "AttributeError"

\* C3, amended: as above, except that lobbyLanguage with a value that is no
\* Language fails with ValueError, raised before the game attribute is read.
C3_AllFailBeforeConnected ==
    ~lobby_seen =>
        /\ game = NoGame
        /\ ret = NoReturn
        /\ event # NoEvent =>
              err = IF event.name = "lobbyLanguage" /\ event.language = Str_not_a_language
                    THEN "ValueError" ELSE "AttributeError"

\* A player joined before any lobbyConnected: the handler failed.
C3_Witness ==
    /\ ~lobby_seen
    /\ event.name = "lobbyPlayerConnected"
    /\ err = "AttributeError"
    /\ game = NoGame

\* C4: right after lobbyConnected with a roster of well-formed dicts of distinct
\* ids and a language
\* that names a member, the Game holds the event's bot id, owner id and
\* normalized language, and players holds exactly the roster's ids, each with
\* the name, avatar, score and guessedWord of its dict; nothing else.
C4_LobbyConnectedInstallsRoster ==
    (/\ event.name = "lobbyConnected"
     /\ NamesLanguage(event.language)
     /\ WellFormedRoster(event.players)
     /\ Cardinality(RosterIds(event.players)) = Len(event.players))
        => /\ err = "none"
           /\ game # NoGame
           /\ game.bot_id = event.myID
           /\ game.owner_id = event.ownerID
           /\ game.language = ExpectedLanguage(event.language)
           /\ DOMAIN game.players = RosterIds(event.players)
           /\ \A i \in DOMAIN event.players :
                 game.players[event.players[i].id] = ExpectedEntry(event.players[i])
           /\ game.bot_id \in DOMAIN game.players

\* lobbyConnected with a roster of two was processed.
C4_Witness ==
    /\ event.name = "lobbyConnected"
    /\ err = "none"
    /\ Len(event.players) = 2
    /\ event.language = Str_ENGLISH
    /\ game.players[game.bot_id] = ExpectedEntry(RosterEntry(game.bot_id))

\* C5, as claimed: whenever a Game exists the bot id is a key of players, and
\* me() does not fail.
C5_BotAlwaysInPlayers ==
    game # NoGame =>
        /\ game.bot_id \in DOMAIN game.players
        /\ event.name = "me" => err = "none"

\* C6, as claimed: with a Game, lobbyPlayerDisconnected never fails and leaves
\* the id out of players, present before or not.
C6_DisconnectNeverFails ==
    (event.name = "lobbyPlayerDisconnected" /\ game # NoGame)
        => /\ err = "none"
           /\ event.id \notin DOMAIN game.players

\* C7: with a Game, lobbyPlayerConnected of a well-formed dict does not fail; players gains the
\* event's id if it was absent and keeps its size if it was present; the entry
\* of that id is the event's data; every other entry and field is unchanged.
C7_JoinAddsOrReplaces ==
    [][(/\ event'.name = "lobbyPlayerConnected"
        /\ game # NoGame
        /\ Len(event'.entry.avatar) = 4) =>
          LET e == event'.entry IN
          /\ err' = "none"
          /\ game' # NoGame
          /\ DOMAIN game'.players = (DOMAIN game.players) \cup {e.id}
          /\ Cardinality(DOMAIN game'.players) =
                Cardinality(DOMAIN game.players)
                    + (IF e.id \in DOMAIN game.players THEN 0 ELSE 1)
          /\ game'.players[e.id] = ExpectedEntry(e)
          /\ \A i \in (DOMAIN game.players) \ {e.id} :
                game'.players[i] = game.players[i]
          /\ [game' EXCEPT !.players = game.players] = game
      ]_vars

\* A player joined a room that holds another player.
C7_Witness ==
    /\ event.name = "lobbyPlayerConnected"
    /\ err = "none"
    /\ game # NoGame
    /\ Cardinality(DOMAIN game.players) = 2
    /\ event.entry.id = game.bot_id
    /\ game.players[event.entry.id] # ExpectedEntry(RosterEntry(event.entry.id))

\* C8: with a Game, owner() returns the Entry at players[ownerId] when there is
\* one and None when there is none; it raises nothing and changes nothing.
C8_OwnerEntryOrNone ==
    [][(event'.name = "owner" /\ game # NoGame) =>
          /\ err' = "none"
          /\ game' = game
          /\ ret' = IF game.owner_id \in DOMAIN game.players
                    THEN [kind |-> "Entry", entry |-> game.players[game.owner_id]]
                    ELSE [kind |-> "None"]
      ]_vars

\* owner() was called in a room whose owner is not in players.
C8_Witness ==
    /\ event.name = "owner"
    /\ game # NoGame
    /\ game.owner_id \notin DOMAIN game.players
    /\ ret = [kind |-> "None"]
    /\ err = "none"

\* C9, as claimed: with a Game, after lobbyPlayerGuessedWord for an id in
\* players, the guessedWord flag of that entry is true.
C9_GuessedWordIsSet ==
    (/\ event.name = "lobbyPlayerGuessedWord"
     /\ game # NoGame
     /\ event.id \in DOMAIN game.players)
        => /\ err = "none"
           /\ game.players[event.id].guessed_word = TRUE

\* C10: with a Game, lobbyLanguage with a value that names a Language after
\* str.capitalize() sets game.language to that member and nothing else; with
\* any other value it fails (ValueError) and the Game, its language included,
\* is as before.
C10_LanguageSetOrRejected ==
    [][(event'.name = "lobbyLanguage" /\ game # NoGame) =>
          IF NamesLanguage(event'.language)
          THEN /\ err' = "none"
               /\ game' = [game EXCEPT !.language = ExpectedLanguage(event'.language)]
          ELSE /\ err' = "ValueError"
               /\ game' = game
      ]_vars

\* An unknown language was refused in a room whose language is not the default.
C10_Witness ==
    /\ event.name = "lobbyLanguage"
    /\ event.language = Str_not_a_language
    /\ err = "ValueError"
    /\ game # NoGame
    /\ game.language = German

\* The events that have a handler other than on_lobby_connected.
RoomEvents ==
    {"chat", "lobbyPlayerDisconnected", "lobbyCurrentWord", "lobbyPlayerConnected",
     "lobbyLanguage", "lobbyPlayerGuessedWord"}

\* The ids of players; none while there is no Game.
PlayerIds(g) == IF g = NoGame THEN {} ELSE DOMAIN g.players

\* C12, as claimed: with a Game, a chat event does not fail, whether its sender
\* id is a key of players or not, and it leaves the Game as it was.
C12_ChatNeverFails ==
    [][(event'.name = "chat" /\ game # NoGame) =>
          /\ err' = "none"
          /\ game' = game
      ]_vars

\* C15, as claimed: a lobbyConnected event dispatched when a Game exists leaves
\* that Game in place, as it was.
C15_GameCreatedOnce ==
    [][(event'.name = "lobbyConnected" /\ game # NoGame) => game' = game]_vars

\* C15, amended: every lobbyConnected event whose language names a member
\* creates a Game, the first one and each further one alike: the Game held is
\* replaced by a new one made of that event alone (its bot id, owner id,
\* language and roster, no current word, an empty canvas); when a dict of the
\* roster is malformed the handler fails and the new Game is left without any
\* player.  An event whose language names no member leaves the slot as it was.
C15_EachLobbyConnectedReplaces ==
    [][(event'.name = "lobbyConnected") =>
          IF NamesLanguage(event'.language)
          THEN /\ game' # NoGame
               /\ game'.bot_id = event'.myID
               /\ game'.owner_id = event'.ownerID
               /\ game'.language = ExpectedLanguage(event'.language)
               /\ game'.current_word = None
               /\ game'.canvas = <<>>
               /\ IF WellFormedRoster(event'.players)
                  THEN /\ err' = "none"
                       /\ DOMAIN game'.players = RosterIds(event'.players)
                  ELSE /\ err' = "TypeError"
                       /\ game'.players = NoPlayers
          ELSE game' = game
      ]_vars

\* A lobbyConnected event found a Game in the slot and left another one: a
\* room of one player, owned by someone else.
C15_Witness ==
    /\ event.name = "lobbyConnected"
    /\ had_game
    /\ err = "none"
    /\ Len(event.players) = 1
    /\ DOMAIN game.players = {game.bot_id}
    /\ game.owner_id # game.bot_id

\* C18: with a Game, an event other than lobbyConnected whose handler fails
\* (KeyError for an id that is not in players, ValueError for a language that
\* names no member, TypeError for a malformed player dict, AttributeError for
\* the guessed-word flag) leaves the Game exactly as it was; the Session and
\* its open room connection are as before, so every later event is dispatched
\* to its handler and acts on the same Game as without the failed one.
C18_FailedHandlerChangesNothing ==
    [][(event'.name \in RoomEvents /\ game # NoGame /\ err' # "none") =>
          /\ game' = game
          /\ lobby_seen' = lobby_seen
          /\ session'
          /\ rconn' = "open"
          /\ Dispatching'
      ]_vars

\* A malformed player dict of an id that is not in players was refused.
C18_Witness ==
    /\ event.name = "lobbyPlayerConnected"
    /\ err = "TypeError"
    /\ had_game
    /\ game # NoGame
    /\ event.entry.id \notin DOMAIN game.players
    /\ Dispatching

\* C19, as claimed: ids are added to players only by lobbyConnected and
\* lobbyPlayerConnected, and only ids of the event; an id is removed only by
\* lobbyPlayerDisconnected, and only the id of the event.
C19_IdsOnlyJoinOrDisconnect ==
    [][LET before == PlayerIds(game)
           after == PlayerIds(game')
       IN /\ after \ before # {} =>
                \/ /\ event'.name = "lobbyConnected"
                   /\ after \ before \subseteq RosterIds(event'.players)
                \/ /\ event'.name = "lobbyPlayerConnected"
                   /\ after \ before = {event'.entry.id}
          /\ before \ after # {} =>
                /\ event'.name = "lobbyPlayerDisconnected"
                /\ before \ after = {event'.id}
      ]_vars

\* C19, amended: the set of ids changes only by lobbyPlayerConnected adding
\* the id of the event, by lobbyPlayerDisconnected removing the id of the
\* event, and by lobbyConnected, which replaces the whole set by the ids of its
\* roster (the ids of a Game held before that are not in the roster are
\* gone), or by no id when a dict of the roster is malformed.  Chat,
\* guessed-word, current-word and language events change no id.
C19_IdsChangeByEvent ==
    [][LET before == PlayerIds(game)
           after == PlayerIds(game')
       IN after # before =>
             \/ /\ event'.name = "lobbyConnected"
                /\ after = IF WellFormedRoster(event'.players)
                           THEN RosterIds(event'.players) ELSE {}
             \/ /\ event'.name = "lobbyPlayerConnected"
                /\ after = before \cup {event'.entry.id}
             \/ /\ event'.name = "lobbyPlayerDisconnected"
                /\ after = before \ {event'.id}
      ]_vars

\* A player other than the bot has left a room of two.
C19_Witness ==
    /\ event.name = "lobbyPlayerDisconnected"
    /\ err = "none"
    /\ had_game
    /\ event.id # game.bot_id
    /\ DOMAIN game.players = {game.bot_id}

\* C20: with a Game, the chat, lobbyPlayerConnected, lobbyPlayerDisconnected,
\* lobbyPlayerGuessedWord, lobbyCurrentWord and lobbyLanguage events leave its
\* bot id and owner id as they are; lobbyCurrentWord changes the current word,
\* to the word sent, and nothing else; lobbyLanguage changes nothing but the
\* language.
C20_BotAndOwnerAreFixed ==
    [][(event'.name \in RoomEvents /\ game # NoGame) =>
          /\ game' # NoGame
          /\ game'.bot_id = game.bot_id
          /\ game'.owner_id = game.owner_id
          /\ event'.name = "lobbyCurrentWord" =>
                game' = [game EXCEPT !.current_word = event'.word]
          /\ event'.name = "lobbyLanguage" =>
                [game' EXCEPT !.language = game.language] = game
      ]_vars

\* The word was revealed in a room whose owner is not the bot.
C20_Witness ==
    /\ event.name = "lobbyCurrentWord"
    /\ err = "none"
    /\ game # NoGame
    /\ game.current_word = "cat"
    /\ game.bot_id # game.owner_id

\* ------------------------------------------------------------------------
\* The scoped use of the Session (checked under LifeSpec)
\* ------------------------------------------------------------------------

\* C11, as claimed: leaving the scoped context of a Session terminates its
\* connection, and the wait() pending in it returns: once the body of the
\* `async with` is left, the context is eventually left, with the connection
\* closed.
C11_LeavingContextCompletes ==
    (ctx = "aexit") ~> (ctx = "left" /\ rconn # "open")

\* ------------------------------------------------------------------------
\* The raw avatar of a Player (checked under AvatarSpec)
\* ------------------------------------------------------------------------

\* C14, as claimed: a read of raw_avatar after the tuple t of valid codes was
\* assigned to it returns t.
C14_RawAvatarRoundTrip ==
    (raw_set # NoTuple /\ raw_got # NoReturn) =>
        /\ raw_got.err = "none"
        /\ raw_got.value = raw_set

====
